---- MODULE Spec2Model ----
(***************************************************************************)
(* Model of the AeroMode wrapper of PyPartMC (src/src/aero_mode.hpp):      *)
(* construction from a JSON document, the schema check check_mode_json,    *)
(* the lifetime of the foreign handle, and the array setters.              *)
(***************************************************************************)
EXTENDS Integers, Sequences, FiniteSets, TLC

VARIABLES doc, stage, trace, err, consumed,
          n_spec, vol_frac, vol_frac_std, op,
          ret, ptr_reads, mode_num_conc, char_radius, gsd, type_code, mode_name,
          n_bins, sample_radius, sample_num_conc

ctor_vars == <<doc, stage, trace, err, consumed>>

\* the scalar attributes of the foreign mode
scalar_vars == <<mode_num_conc, char_radius, gsd>>

\* the type code and the name of the foreign mode
text_vars == <<type_code, mode_name>>

\* the sampled size distribution of the foreign mode
sample_vars == <<n_bins, sample_radius, sample_num_conc>>

\* the species arrays of the foreign mode
array_vars == <<n_spec, vol_frac, vol_frac_std>>

mode_vars == <<array_vars, op, ret, ptr_reads, scalar_vars, text_vars, sample_vars>>

vars == <<ctor_vars, mode_vars>>

(***************************************************************************)
(* Bounds of the model.                                                    *)
(***************************************************************************)
\* longest diam / num_conc list of a size_dist
MaxLen == 3
\* longest mass_frac list
MaxFrac == 2
\* largest species count of a mode
MaxSpec == 2
\* longest array handed to an array setter
MaxData == 3

(***************************************************************************)
(* JSON values (nlohmann::json).  A value is a record of its kind and a    *)
(* sequence: the elements of an array, the <<key, value>> pairs of an      *)
(* object in key order (std::map), the one primitive of a scalar.          *)
(***************************************************************************)
Null == [kind |-> "null", val |-> <<>>]
Num(n) == [kind |-> "num", val |-> <<n>>]
Str(s) == [kind |-> "str", val |-> <<s>>]
Arr(items) == [kind |-> "arr", val |-> items]
Obj(pairs) == [kind |-> "obj", val |-> pairs]

\* basic_json::size(): 0 for null, the element count of an array or object, 1 for a scalar
Size(j) ==
    IF j.kind = "null" THEN 0
    ELSE IF j.kind \in {"arr", "obj"} THEN Len(j.val)
    ELSE 1

is_object(j) == j.kind = "obj"

is_array(j) == j.kind = "arr"

\* basic_json::find(key) != end(): only an object finds anything
Has(j, key) == j.kind = "obj" /\ \E i \in 1..Len(j.val) : j.val[i][1] = key

\* *find(key) / operator[](key) of an object that has the key
Get(j, key) == j.val[CHOOSE i \in 1..Len(j.val) : j.val[i][1] = key][2]

\* operator[](size_type) of an array, 0-based
At(j, i) == j.val[i + 1]

\* json.begin().value() of a non-empty object
BeginValue(j) == j.val[1][2]

\* json.begin().key() of a non-empty object
BeginKey(j) == j.val[1][1]

Keys(j) == {j.val[i][1] : i \in 1..Len(j.val)}

(***************************************************************************)
(* Errors: the exception kind and the message as a sequence of its parts.  *)
(***************************************************************************)
NoError == [kind |-> "none", msg |-> <<>>]
RuntimeError(parts) == [kind |-> "runtime_error", msg |-> parts]
TypeError(parts) == [kind |-> "type_error", msg |-> parts]

Names(e, key) == \E i \in 1..Len(e.msg) : e.msg[i] = key

(***************************************************************************)
(* The schema check of the constructor and of check_mode_json.             *)
(***************************************************************************)
\* the outer-shape test without the test of the value
shape_ok_any_value(json) == ~(Size(json) # 1 \/ ~is_object(json))

\* the outer-shape test of the constructor; || short-circuits, so begin() is
\* reached only for an object of size 1
shape_ok(json) ==
    ~(Size(json) # 1 \/ ~is_object(json) \/ ~is_object(BeginValue(json)))

\* std::set<std::string>({"mass_frac", "mode_type"}) in iteration order
RequiredKeys == <<"mass_frac", "mode_type">>

\* the required-key loop run from the last key to the first
missing_key_error_reversed(mode) ==
    IF \E i \in 1..Len(RequiredKeys) : ~Has(mode, RequiredKeys[i])
    THEN LET i == CHOOSE i \in 1..Len(RequiredKeys) :
                     /\ ~Has(mode, RequiredKeys[i])
                     /\ \A j \in (i + 1)..Len(RequiredKeys) : Has(mode, RequiredKeys[j])
         IN RuntimeError(<<"mode parameters dict must include key '", RequiredKeys[i], "'">>)
    ELSE NoError

\* the required-key loop: the first key of the set that the mapping lacks
missing_key_error(mode) ==
    IF \E i \in 1..Len(RequiredKeys) : ~Has(mode, RequiredKeys[i])
    THEN LET i == CHOOSE i \in 1..Len(RequiredKeys) :
                     /\ ~Has(mode, RequiredKeys[i])
                     /\ \A j \in 1..(i - 1) : Has(mode, RequiredKeys[j])
         IN RuntimeError(<<"mode parameters dict must include key '", RequiredKeys[i], "'">>)
    ELSE NoError

\* InputJSONResource::unique_keys: the keys of the single-key mappings of a
\* list are pairwise distinct
unique_keys(list) ==
    \A i, j \in 1..Len(list.val) :
        i # j => BeginKey(list.val[i]) # BeginKey(list.val[j])

\* the mass_frac tests without the test for unique keys
mass_frac_error_no_unique(mode) ==
    IF ~is_array(Get(mode, "mass_frac"))
    THEN RuntimeError(<<"mass_frac value must be a list of single-element dicts">>)
    ELSE NoError

\* the mass_frac tests
mass_frac_error(mode) ==
    LET mass_frac == Get(mode, "mass_frac") IN
    IF ~is_array(mass_frac)
    THEN RuntimeError(<<"mass_frac value must be a list of single-element dicts">>)
    ELSE IF ~unique_keys(mass_frac)
    THEN RuntimeError(<<"mass_frac keys must be unique">>)
    ELSE NoError

SizeDistShapeMsg == <<"size_dist value must be an iterable of two single-element dicts (first with 'diam', second with 'num_conc' as keys)">>

\* the shape test without the size test of the second entry
size_dist_shape_error_loose(sd) ==
    IF Size(sd) # 2 THEN RuntimeError(SizeDistShapeMsg)
    ELSE IF ~is_array(sd)
    THEN TypeError(<<"cannot use operator[] with a numeric argument with object">>)
    ELSE IF \/ ~is_object(At(sd, 0))
            \/ Size(At(sd, 0)) # 1
            \/ ~Has(At(sd, 0), "diam")
            \/ ~Has(At(sd, 1), "num_conc")
    THEN RuntimeError(SizeDistShapeMsg)
    ELSE NoError

\* the test on the shape of size_dist; sd[0] on an object of size 2 throws
\* nlohmann's type_error 305, and || short-circuits from left to right
size_dist_shape_error(sd) ==
    IF Size(sd) # 2 THEN RuntimeError(SizeDistShapeMsg)
    ELSE IF ~is_array(sd)
    THEN TypeError(<<"cannot use operator[] with a numeric argument with object">>)
    ELSE IF \/ ~is_object(At(sd, 0))
            \/ Size(At(sd, 0)) # 1
            \/ Size(At(sd, 1)) # 1
            \/ ~Has(At(sd, 0), "diam")
            \/ ~Has(At(sd, 1), "num_conc")
    THEN RuntimeError(SizeDistShapeMsg)
    ELSE NoError

\* the size test without the + 1
size_dist_len_error_equal(sd) ==
    LET diam == Get(At(sd, 0), "diam")
        num_conc == Get(At(sd, 1), "num_conc")
    IN IF Size(diam) # Size(num_conc)
       THEN RuntimeError(<<"size_dist['num_conc'] must have len(size_dist['diam'])-1 elements">>)
       ELSE NoError

\* the test on the sizes of diam and num_conc
size_dist_len_error(sd) ==
    LET diam == Get(At(sd, 0), "diam")
        num_conc == Get(At(sd, 1), "num_conc")
    IN IF Size(diam) # Size(num_conc) + 1
       THEN RuntimeError(<<"size_dist['num_conc'] must have len(size_dist['diam'])-1 elements">>)
       ELSE NoError

\* the branch taken when mode_type compares equal to the string "sampled"
sampled_error(mode) ==
    IF ~Has(mode, "size_dist")
    THEN RuntimeError(<<"size_dist key must be set for mode_type=sampled">>)
    ELSE LET sd == Get(mode, "size_dist") IN
         IF size_dist_shape_error(sd) # NoError THEN size_dist_shape_error(sd)
         ELSE size_dist_len_error(sd)

\* the size_dist branch taken for every mode_type that is a string
is_sampled_any_string(mode) == Get(mode, "mode_type").kind = "str"

is_sampled(mode) == Get(mode, "mode_type") = Str("sampled")

\* check_mode_json without the branch for mode_type sampled
check_mode_json_unsampled(mode) ==
    IF missing_key_error(mode) # NoError THEN missing_key_error(mode)
    ELSE mass_frac_error(mode)

\* check_mode_json: the error it throws, NoError when it returns
check_mode_json(mode) ==
    IF missing_key_error(mode) # NoError THEN missing_key_error(mode)
    ELSE IF mass_frac_error(mode) # NoError THEN mass_frac_error(mode)
    ELSE IF is_sampled(mode) THEN sampled_error(mode)
    ELSE NoError

ShapeError == RuntimeError(<<"Single-element dict expected with mode name as key and mode params dict as value">>)

(***************************************************************************)
(* The documents handed to the constructor.                                *)
(***************************************************************************)
Obj1(k, v) == Obj(<< <<k, v>> >>)

NumList(n) == Arr([i \in 1..n |-> Num(i)])

\* values of diam and of num_conc: lists, a scalar, null
SizeVals == {NumList(n) : n \in 0..MaxLen} \cup {Num(7), Null}

TwoKeys == Obj(<< <<"diam", NumList(2)>>, <<"num_conc", NumList(1)>> >>)

\* entries of a size_dist
SdEntries ==
    {Obj1("diam", d) : d \in SizeVals} \cup {Obj1("num_conc", n) : n \in SizeVals}
    \cup {Obj1("radius", NumList(2)), TwoKeys, Obj(<<>>), Arr(<<Num(1)>>), Num(1)}

SizeDists ==
    {Arr(<<a, b>>) : a, b \in SdEntries}
    \cup {Arr(<<>>),
          Arr(<<Obj1("diam", NumList(2))>>),
          Arr(<<Obj1("diam", NumList(2)), Obj1("num_conc", NumList(1)), Obj1("num_conc", NumList(1))>>),
          TwoKeys, Null, Num(2)}

Species == {"SO4", "BC"}

MassFracs ==
    {Arr(l) : l \in UNION {[1..n -> {Obj1(k, Num(1)) : k \in Species}] : n \in 0..MaxFrac}}
    \cup {Num(1), Obj1("SO4", Num(1))}

ModeTypes == {Str("sampled"), Str("log_normal"), Str("bogus"), Num(3)}

\* a key that is left out of a mapping
Absent == [kind |-> "absent", val |-> <<>>]

Pair(k, v) == IF v = Absent THEN <<>> ELSE << <<k, v>> >>

ModeParams ==
    {Obj(Pair("mass_frac", mf) \o Pair("mode_type", mt) \o Pair("size_dist", sd) \o Pair("typo_field", tf)) :
        mf \in MassFracs \cup {Absent}, mt \in ModeTypes \cup {Absent},
        sd \in SizeDists \cup {Absent}, tf \in {Num(1), Absent}}

AMode == Obj(<< <<"mass_frac", Arr(<<Obj1("SO4", Num(1))>>)>>, <<"mode_type", Str("log_normal")>> >>)

\* documents of the wrong outer shape
BadShapes ==
    {Null, Num(1), Str("mode"), Arr(<<>>), Arr(<<Obj1("my_mode", AMode)>>), Obj(<<>>),
     Obj(<< <<"a_mode", AMode>>, <<"b_mode", AMode>> >>),
     Obj1("my_mode", Num(1)), Obj1("my_mode", Null), Obj1("my_mode", Arr(<<AMode>>))}

Docs == {Obj1("my_mode", m) : m \in ModeParams} \cup BadShapes

(***************************************************************************)
(* AeroMode(AeroData&, const json&), step by step.  trace is the sequence  *)
(* of calls and throws of the construction; the names starting with f_ are *)
(* the foreign calls.                                                      *)
(***************************************************************************)
ForeignCalls == {"f_aero_mode_ctor", "f_aero_mode_from_json", "f_aero_mode_dtor"}

NoOp == [name |-> "none", data |-> <<>>, err |-> NoError, calls |-> <<>>]

\* nothing returned and nothing read through a foreign pointer yet
NoReturn == ret = <<>> /\ ptr_reads = {}

\* a mode whose scalar attributes were never set
ScalarDefaults == mode_num_conc = 0 /\ char_radius = 0 /\ gsd = 0

\* a mode whose type and name were never set
TextDefaults == type_code = 0 /\ mode_name = <<>>

\* a mode without a sampled size distribution
SampleDefaults == n_bins = 0 /\ sample_radius = <<>> /\ sample_num_conc = <<>>

InitCtor ==
    /\ doc \in Docs
    /\ stage = "Start"
    /\ trace = <<>>
    /\ err = NoError
    /\ consumed = {}
    /\ n_spec = 0
    /\ vol_frac = <<>>
    /\ vol_frac_std = <<>>
    /\ op = NoOp
    /\ NoReturn
    /\ ScalarDefaults
    /\ TextDefaults
    /\ SampleDefaults

\* PMCResource(f_ctor, f_dtor): the foreign constructor is called once
PMCResource_ctor(t) == Append(t, "f_aero_mode_ctor")

\* ~PMCResource(): the foreign destructor is called once
PMCResource_dtor(t) == Append(t, "f_aero_mode_dtor")

\* an unwinding that does not release the handle
Unwind_leak(t) == Append(t, "throw")

\* an exception leaving the constructor body destroys the constructed member ptr
Unwind(t) == PMCResource_dtor(Append(t, "throw"))

\* the member initializer ptr(f_aero_mode_ctor, f_aero_mode_dtor) runs before the body
MemberInit ==
    /\ stage = "Start"
    /\ trace' = PMCResource_ctor(trace)
    /\ stage' = "Unvalidated"
    /\ UNCHANGED <<doc, err, consumed>>
    /\ UNCHANGED mode_vars

\* the outer-shape test of the body
ShapeCheck ==
    /\ stage = "Unvalidated"
    /\ IF shape_ok(doc)
       THEN /\ stage' = "ShapeChecked"
            /\ trace' = Append(trace, "shape_check")
            /\ err' = err
       ELSE /\ stage' = "Rejected"
            /\ trace' = Unwind(Append(trace, "shape_check"))
            /\ err' = ShapeError
    /\ UNCHANGED <<doc, consumed>>
    /\ UNCHANGED mode_vars

\* check_mode_json(json.begin().value())
CheckModeJson ==
    /\ stage = "ShapeChecked"
    /\ LET e == check_mode_json(BeginValue(doc)) IN
       IF e = NoError
       THEN /\ stage' = "SchemaChecked"
            /\ trace' = Append(trace, "check_mode_json")
            /\ err' = err
       ELSE /\ stage' = "Rejected"
            /\ trace' = Unwind(Append(trace, "check_mode_json"))
            /\ err' = e
    /\ UNCHANGED <<doc, consumed>>
    /\ UNCHANGED mode_vars

\* the keys f_aero_mode_from_json reads from the document: the required ones,
\* and size_dist or not
ForeignReads(mode, rs) ==
    Keys(mode) \cap ({"mass_frac", "mode_type"} \cup (IF rs THEN {"size_dist"} ELSE {}))

\* f_aero_mode_from_json called before check_mode_json
FromJson_unchecked ==
    /\ stage = "ShapeChecked"
    /\ \E rs \in BOOLEAN : consumed' = ForeignReads(BeginValue(doc), rs)
    /\ trace' = Append(Append(trace, "guard_ctor"), "f_aero_mode_from_json")
    /\ stage' = "ForeignConstructed"
    /\ UNCHANGED <<doc, err>>
    /\ UNCHANGED mode_vars

\* the guard is set up and f_aero_mode_from_json consumes the document
FromJson ==
    /\ stage = "SchemaChecked"
    /\ \E rs \in BOOLEAN : consumed' = ForeignReads(BeginValue(doc), rs)
    /\ trace' = Append(Append(trace, "guard_ctor"), "f_aero_mode_from_json")
    /\ stage' = "ForeignConstructed"
    /\ UNCHANGED <<doc, err>>
    /\ UNCHANGED mode_vars

\* JSONResourceGuard::check_parameters: the keys of the document nobody read
Unread(mode, read) == Keys(mode) \ read

UnconsumedError == RuntimeError(<<"Provided unknown parameter(s)">>)

\* a check_parameters that never throws
CheckParameters_skipped ==
    /\ stage = "ForeignConstructed"
    /\ stage' = "KeysConsumedVerified"
    /\ trace' = Append(trace, "check_parameters")
    /\ UNCHANGED <<doc, err, consumed>>
    /\ UNCHANGED mode_vars

\* guard.check_parameters(); a throw destroys the guard, then ptr
CheckParameters ==
    /\ stage = "ForeignConstructed"
    /\ IF Unread(BeginValue(doc), consumed) = {}
       THEN /\ stage' = "KeysConsumedVerified"
            /\ trace' = Append(trace, "check_parameters")
            /\ err' = err
       ELSE /\ stage' = "Rejected"
            /\ trace' = Unwind(Append(Append(trace, "check_parameters"), "guard_dtor"))
            /\ err' = UnconsumedError
    /\ UNCHANGED <<doc, consumed>>
    /\ UNCHANGED mode_vars

\* the end of the body: the guard is destroyed and the AeroMode exists
Return ==
    /\ stage = "KeysConsumedVerified"
    /\ stage' = "Ready"
    /\ trace' = Append(trace, "guard_dtor")
    /\ UNCHANGED <<doc, err, consumed>>
    /\ UNCHANGED mode_vars

\* the end of the AeroMode's lifetime: ~PMCResource of the member ptr
Destroy ==
    /\ stage = "Ready"
    /\ stage' = "Destroyed"
    /\ trace' = PMCResource_dtor(trace)
    /\ UNCHANGED <<doc, err, consumed>>
    /\ UNCHANGED mode_vars

Next ==
    \/ MemberInit
    \/ ShapeCheck
    \/ CheckModeJson
    \/ FromJson
    \/ CheckParameters
    \/ Return
    \/ Destroy

Spec == InitCtor /\ [][Next]_vars

(***************************************************************************)
(* A constructed AeroMode and its array setters.  op records the last      *)
(* call: its name, the array handed in, the error thrown and the foreign   *)
(* calls made, each with the count passed or returned.                     *)
(***************************************************************************)
\* the values of array elements
Vals == {1, 2}

\* the arrays a caller hands to a setter
Arrays == UNION {[1..n -> Vals] : n \in 0..MaxData}

\* AeroMode(): the member initializer acquires the handle; the species count
\* of the mode is the foreign side's
InitMode ==
    /\ doc = Null
    /\ stage = "Ready"
    /\ trace = PMCResource_ctor(<<>>)
    /\ err = NoError
    /\ consumed = {}
    /\ n_spec \in 0..MaxSpec
    /\ vol_frac = [i \in 1..n_spec |-> 0]
    /\ vol_frac_std = [i \in 1..n_spec |-> 0]
    /\ op = NoOp
    /\ NoReturn
    /\ ScalarDefaults
    /\ TextDefaults
    /\ SampleDefaults

Call(fn, n) == [fn |-> fn, n |-> n]

\* f_aero_mode_get_n_spec: reports the species count
f_aero_mode_get_n_spec == Call("f_aero_mode_get_n_spec", n_spec)

\* f_aero_mode_set_vol_frac / _std: the foreign side stores the arr_size
\* elements it is handed
f_store(arr_data, arr_size) == SubSeq(arr_data, 1, arr_size)

\* a call that returns nothing
Void == ret' = <<>> /\ ptr_reads' = {}

DimensionError == RuntimeError(<<"AeroData size mismatch">>)

\* set_vol_frac without the length test
set_vol_frac_unchecked(data) ==
    /\ stage = "Ready"
    /\ op' = [name |-> "set_vol_frac", data |-> data, err |-> NoError,
              calls |-> <<f_aero_mode_get_n_spec, Call("f_aero_mode_set_vol_frac", Len(data))>>]
    /\ vol_frac' = f_store(data, Len(data))
    /\ UNCHANGED <<n_spec, vol_frac_std>>
    /\ Void
    /\ UNCHANGED <<scalar_vars, text_vars, sample_vars>>
    /\ UNCHANGED ctor_vars

\* set_vol_frac: the length test, then the foreign write
set_vol_frac(data) ==
    LET len == Len(data) IN
    /\ stage = "Ready"
    /\ IF len # n_spec
       THEN /\ op' = [name |-> "set_vol_frac", data |-> data, err |-> DimensionError,
                      calls |-> <<f_aero_mode_get_n_spec>>]
            /\ vol_frac' = vol_frac
       ELSE /\ op' = [name |-> "set_vol_frac", data |-> data, err |-> NoError,
                      calls |-> <<f_aero_mode_get_n_spec, Call("f_aero_mode_set_vol_frac", len)>>]
            /\ vol_frac' = f_store(data, len)
    /\ UNCHANGED <<n_spec, vol_frac_std>>
    /\ Void
    /\ UNCHANGED <<scalar_vars, text_vars, sample_vars>>
    /\ UNCHANGED ctor_vars

\* set_vol_frac_std that writes first and tests the length afterwards
set_vol_frac_std_late_check(data) ==
    LET len == Len(data) IN
    /\ stage = "Ready"
    /\ op' = [name |-> "set_vol_frac_std", data |-> data,
              err |-> IF len # n_spec THEN DimensionError ELSE NoError,
              calls |-> <<Call("f_aero_mode_set_vol_frac_std", len), f_aero_mode_get_n_spec>>]
    /\ vol_frac_std' = f_store(data, len)
    /\ UNCHANGED <<n_spec, vol_frac>>
    /\ Void
    /\ UNCHANGED <<scalar_vars, text_vars, sample_vars>>
    /\ UNCHANGED ctor_vars

\* set_vol_frac_std: the length test, then the foreign write
set_vol_frac_std(data) ==
    LET len == Len(data) IN
    /\ stage = "Ready"
    /\ IF len # n_spec
       THEN /\ op' = [name |-> "set_vol_frac_std", data |-> data, err |-> DimensionError,
                      calls |-> <<f_aero_mode_get_n_spec>>]
            /\ vol_frac_std' = vol_frac_std
       ELSE /\ op' = [name |-> "set_vol_frac_std", data |-> data, err |-> NoError,
                      calls |-> <<f_aero_mode_get_n_spec, Call("f_aero_mode_set_vol_frac_std", len)>>]
            /\ vol_frac_std' = f_store(data, len)
    /\ UNCHANGED <<n_spec, vol_frac>>
    /\ Void
    /\ UNCHANGED <<scalar_vars, text_vars, sample_vars>>
    /\ UNCHANGED ctor_vars

\* the foreign side writes the arr_size elements it holds into the buffer,
\* which std::valarray<double>(len) filled with zeros
f_fill(stored, arr_size) ==
    [i \in 1..arr_size |-> IF i <= Len(stored) THEN stored[i] ELSE 0]

\* get_vol_frac: the size query, a buffer of that size, the foreign fill
get_vol_frac ==
    LET len == f_aero_mode_get_n_spec.n IN
    /\ stage = "Ready"
    /\ op' = [name |-> "get_vol_frac", data |-> <<>>, err |-> NoError,
              calls |-> <<f_aero_mode_get_n_spec, Call("f_aero_mode_get_vol_frac", len)>>]
    /\ ret' = f_fill(vol_frac, len)
    /\ ptr_reads' = {}
    /\ UNCHANGED <<array_vars, scalar_vars, text_vars, sample_vars>>
    /\ UNCHANGED ctor_vars

\* get_vol_frac_std filled from vol_frac
get_vol_frac_std_copied ==
    LET len == f_aero_mode_get_n_spec.n IN
    /\ stage = "Ready"
    /\ op' = [name |-> "get_vol_frac_std", data |-> <<>>, err |-> NoError,
              calls |-> <<f_aero_mode_get_n_spec, Call("f_aero_mode_get_vol_frac", len)>>]
    /\ ret' = f_fill(vol_frac, len)
    /\ ptr_reads' = {}
    /\ UNCHANGED <<array_vars, scalar_vars, text_vars, sample_vars>>
    /\ UNCHANGED ctor_vars

\* get_vol_frac_std: the size query, a buffer of that size, the foreign fill
get_vol_frac_std ==
    LET len == f_aero_mode_get_n_spec.n IN
    /\ stage = "Ready"
    /\ op' = [name |-> "get_vol_frac_std", data |-> <<>>, err |-> NoError,
              calls |-> <<f_aero_mode_get_n_spec, Call("f_aero_mode_get_vol_frac_std", len)>>]
    /\ ret' = f_fill(vol_frac_std, len)
    /\ ptr_reads' = {}
    /\ UNCHANGED <<array_vars, scalar_vars, text_vars, sample_vars>>
    /\ UNCHANGED ctor_vars

\* set_num_conc: the value goes to the foreign side, which stores it
set_num_conc(val) ==
    /\ stage = "Ready"
    /\ op' = [name |-> "set_num_conc", data |-> <<val>>, err |-> NoError,
              calls |-> <<Call("f_aero_mode_set_num_conc", val)>>]
    /\ mode_num_conc' = val
    /\ Void
    /\ UNCHANGED <<char_radius, gsd, array_vars, text_vars, sample_vars>>
    /\ UNCHANGED ctor_vars

\* get_num_conc: the foreign side reports the value
get_num_conc ==
    /\ stage = "Ready"
    /\ op' = [name |-> "get_num_conc", data |-> <<>>, err |-> NoError,
              calls |-> <<Call("f_aero_mode_get_num_conc", mode_num_conc)>>]
    /\ ret' = <<mode_num_conc>>
    /\ ptr_reads' = {}
    /\ UNCHANGED <<array_vars, scalar_vars, text_vars, sample_vars>>
    /\ UNCHANGED ctor_vars

\* set_char_radius: the value goes to the foreign side, which stores it
set_char_radius(val) ==
    /\ stage = "Ready"
    /\ op' = [name |-> "set_char_radius", data |-> <<val>>, err |-> NoError,
              calls |-> <<Call("f_aero_mode_set_char_radius", val)>>]
    /\ char_radius' = val
    /\ Void
    /\ UNCHANGED <<mode_num_conc, gsd, array_vars, text_vars, sample_vars>>
    /\ UNCHANGED ctor_vars

\* get_char_radius: the foreign side reports the value
get_char_radius ==
    /\ stage = "Ready"
    /\ op' = [name |-> "get_char_radius", data |-> <<>>, err |-> NoError,
              calls |-> <<Call("f_aero_mode_get_char_radius", char_radius)>>]
    /\ ret' = <<char_radius>>
    /\ ptr_reads' = {}
    /\ UNCHANGED <<array_vars, scalar_vars, text_vars, sample_vars>>
    /\ UNCHANGED ctor_vars

\* set_gsd that calls the foreign setter of char_radius
set_gsd_as_char_radius(val) ==
    /\ stage = "Ready"
    /\ op' = [name |-> "set_gsd", data |-> <<val>>, err |-> NoError,
              calls |-> <<Call("f_aero_mode_set_char_radius", val)>>]
    /\ char_radius' = val
    /\ Void
    /\ UNCHANGED <<mode_num_conc, gsd, array_vars, text_vars, sample_vars>>
    /\ UNCHANGED ctor_vars

\* set_gsd: the value goes to the foreign side, which stores it
set_gsd(val) ==
    /\ stage = "Ready"
    /\ op' = [name |-> "set_gsd", data |-> <<val>>, err |-> NoError,
              calls |-> <<Call("f_aero_mode_set_gsd", val)>>]
    /\ gsd' = val
    /\ Void
    /\ UNCHANGED <<mode_num_conc, char_radius, array_vars, text_vars, sample_vars>>
    /\ UNCHANGED ctor_vars

\* get_gsd: the foreign side reports the value
get_gsd ==
    /\ stage = "Ready"
    /\ op' = [name |-> "get_gsd", data |-> <<>>, err |-> NoError,
              calls |-> <<Call("f_aero_mode_get_gsd", gsd)>>]
    /\ ret' = <<gsd>>
    /\ ptr_reads' = {}
    /\ UNCHANGED <<array_vars, scalar_vars, text_vars, sample_vars>>
    /\ UNCHANGED ctor_vars

NextMode ==
    \/ \E data \in Arrays : set_vol_frac(data)
    \/ \E data \in Arrays : set_vol_frac_std(data)
    \/ get_vol_frac
    \/ get_vol_frac_std
    \/ \E val \in Vals : set_num_conc(val)
    \/ get_num_conc
    \/ \E val \in Vals : set_char_radius(val)
    \/ get_char_radius
    \/ \E val \in Vals : set_gsd(val)
    \/ get_gsd

SpecMode == InitMode /\ [][NextMode]_vars

(***************************************************************************)
(* The type and the name of a constructed AeroMode.                        *)
(***************************************************************************)
\* largest and smallest type code the foreign side may report
MaxCode == 6
MinCode == 0 - 1
\* longest mode name
MaxName == 2

InvalidArgument(parts) == [kind |-> "invalid_argument", msg |-> parts]
LogicError(parts) == [kind |-> "logic_error", msg |-> parts]

\* AeroMode::types(): the names of the mode types
types == <<"log_normal", "exp", "mono", "sampled">>

\* std::vector::operator[], 0-based
At0(vec, i) == vec[i + 1]

\* the mode names a caller hands to set_type
TypeNames == {"log_normal", "exp", "mono", "sampled", "bogus", ""}

\* the bytes of a name
Chars == {"a", "b"}

\* the strings a caller hands to set_name
NameStrings == UNION {[1..n -> Chars] : n \in 0..MaxName}

\* a constructed mode whose type code is whatever the foreign side holds
InitText ==
    /\ doc = Null
    /\ stage = "Ready"
    /\ trace = PMCResource_ctor(<<>>)
    /\ err = NoError
    /\ consumed = {}
    /\ n_spec = 0
    /\ vol_frac = <<>>
    /\ vol_frac_std = <<>>
    /\ op = NoOp
    /\ NoReturn
    /\ ScalarDefaults
    /\ SampleDefaults
    /\ type_code \in MinCode..MaxCode
    /\ mode_name = <<>>

\* the loop of set_type: ++type, then the comparison with the element
RECURSIVE find_type(_, _, _)
find_type(vec, mode_type, type) ==
    IF type = Len(vec) THEN [found |-> FALSE, type |-> type]
    ELSE IF At0(vec, type) = mode_type THEN [found |-> TRUE, type |-> type + 1]
    ELSE find_type(vec, mode_type, type + 1)

\* set_type that hands the code to the foreign side also when nothing was found
set_type_unchecked(mode_type) ==
    LET r == find_type(types, mode_type, 0) IN
    /\ stage = "Ready"
    /\ op' = [name |-> "set_type", data |-> <<mode_type>>, err |-> NoError,
              calls |-> <<Call("f_aero_mode_set_type", r.type)>>]
    /\ type_code' = r.type
    /\ Void
    /\ UNCHANGED <<mode_name, array_vars, scalar_vars, sample_vars>>
    /\ UNCHANGED ctor_vars

\* set_type: the search, the throw when nothing was found, the foreign write
set_type(mode_type) ==
    LET r == find_type(types, mode_type, 0) IN
    /\ stage = "Ready"
    /\ IF ~r.found
       THEN /\ op' = [name |-> "set_type", data |-> <<mode_type>>,
                      err |-> InvalidArgument(<<"Invalid mode type.">>), calls |-> <<>>]
            /\ type_code' = type_code
       ELSE /\ op' = [name |-> "set_type", data |-> <<mode_type>>, err |-> NoError,
                      calls |-> <<Call("f_aero_mode_set_type", r.type)>>]
            /\ type_code' = r.type
    /\ Void
    /\ UNCHANGED <<mode_name, array_vars, scalar_vars, sample_vars>>
    /\ UNCHANGED ctor_vars

\* the range test of get_type and the lookup, with the index taken 0-based as it is
type_name_unshifted(type) ==
    IF type < 0 \/ type >= Len(types)
    THEN [err |-> LogicError(<<"Unknown mode type.">>), ret |-> <<>>]
    ELSE [err |-> NoError, ret |-> <<At0(types, type)>>]

\* the range test of get_type throwing the error kind of set_type
type_name_invalid_argument(type) ==
    IF type <= 0 \/ type > Len(types)
    THEN [err |-> InvalidArgument(<<"Unknown mode type.">>), ret |-> <<>>]
    ELSE [err |-> NoError, ret |-> <<At0(types, type - 1)>>]

\* the range test of get_type and the lookup types()[type - 1]
type_name(type) ==
    IF type <= 0 \/ type > Len(types)
    THEN [err |-> LogicError(<<"Unknown mode type.">>), ret |-> <<>>]
    ELSE [err |-> NoError, ret |-> <<At0(types, type - 1)>>]

\* get_type: the foreign read, then the range test and the lookup
get_type ==
    /\ stage = "Ready"
    /\ op' = [name |-> "get_type", data |-> <<>>, err |-> type_name(type_code).err,
              calls |-> <<Call("f_aero_mode_get_type", type_code)>>]
    /\ ret' = type_name(type_code).ret
    /\ ptr_reads' = {}
    /\ UNCHANGED <<text_vars, array_vars, scalar_vars, sample_vars>>
    /\ UNCHANGED ctor_vars

\* set_name that passes one byte less than the string has
set_name_short(str) ==
    LET size == IF Len(str) = 0 THEN 0 ELSE Len(str) - 1 IN
    /\ stage = "Ready"
    /\ op' = [name |-> "set_name", data |-> str, err |-> NoError,
              calls |-> <<Call("f_aero_mode_set_name", size)>>]
    /\ mode_name' = f_store(str, size)
    /\ Void
    /\ UNCHANGED <<type_code, array_vars, scalar_vars, sample_vars>>
    /\ UNCHANGED ctor_vars

\* set_name: the bytes of the string and its size go to the foreign side,
\* which stores that many bytes
set_name(str) ==
    LET size == Len(str) IN
    /\ stage = "Ready"
    /\ op' = [name |-> "set_name", data |-> str, err |-> NoError,
              calls |-> <<Call("f_aero_mode_set_name", size)>>]
    /\ mode_name' = f_store(str, size)
    /\ Void
    /\ UNCHANGED <<type_code, array_vars, scalar_vars, sample_vars>>
    /\ UNCHANGED ctor_vars

\* get_name: the foreign side reports a pointer to the bytes of the name and
\* their count; the string is resized to the count and filled byte by byte
get_name ==
    LET size == Len(mode_name) IN
    /\ stage = "Ready"
    /\ op' = [name |-> "get_name", data |-> <<>>, err |-> NoError,
              calls |-> <<Call("f_aero_mode_get_name", size)>>]
    /\ ret' = [i \in 1..size |-> mode_name[i]]
    /\ ptr_reads' = 0..(size - 1)
    /\ UNCHANGED <<text_vars, array_vars, scalar_vars, sample_vars>>
    /\ UNCHANGED ctor_vars

NextText ==
    \/ \E mode_type \in TypeNames : set_type(mode_type)
    \/ get_type
    \/ \E str \in NameStrings : set_name(str)
    \/ get_name

SpecText == InitText /\ [][NextText]_vars

(***************************************************************************)
(* The sampled size distribution and the array getters of a constructed    *)
(* AeroMode.                                                               *)
(***************************************************************************)
\* largest bin count of a sampled distribution or of a bin grid
MaxBins == 2

\* the diameters a caller hands to set_sampled
DiamArrays == UNION {[1..n -> {2, 4}] : n \in 0..(MaxBins + 1)}

\* the number concentrations a caller hands to set_sampled
NumConcArrays == UNION {[1..n -> {1}] : n \in 0..(MaxBins + 1)}

\* a constructed mode with the species count and the bin count the foreign
\* side holds; the sample radii are allocated or not
InitArrays ==
    /\ doc = Null
    /\ stage = "Ready"
    /\ trace = PMCResource_ctor(<<>>)
    /\ err = NoError
    /\ consumed = {}
    /\ n_spec \in 0..MaxSpec
    /\ vol_frac = [i \in 1..n_spec |-> 0]
    /\ vol_frac_std = [i \in 1..n_spec |-> 0]
    /\ op = NoOp
    /\ NoReturn
    /\ ScalarDefaults
    /\ TextDefaults
    /\ n_bins \in 0..MaxBins
    /\ sample_num_conc = [i \in 1..n_bins |-> 0]
    /\ sample_radius \in {<<>>, [i \in 1..(n_bins + 1) |-> 0]}

SampleError == RuntimeError(<<"Diameter and number size mismatch">>)

\* set_sampled that hands the number of bins to the foreign side
set_sampled_bins(diams, num_concs) ==
    LET len == Len(diams) IN
    /\ stage = "Ready"
    /\ IF len # Len(num_concs) + 1
       THEN /\ op' = [name |-> "set_sampled", data |-> <<diams, num_concs>>,
                      err |-> SampleError, calls |-> <<>>]
            /\ UNCHANGED sample_vars
       ELSE /\ op' = [name |-> "set_sampled", data |-> <<diams, num_concs>>, err |-> NoError,
                      calls |-> <<Call("f_aero_mode_set_sampled", len - 1)>>]
            /\ n_bins' = len - 1
            /\ sample_radius' = [i \in 1..len |-> diams[i] \div 2]
            /\ sample_num_conc' = f_store(num_concs, len - 1)
    /\ Void
    /\ UNCHANGED <<array_vars, scalar_vars, text_vars>>
    /\ UNCHANGED ctor_vars

\* set_sampled: the length test, then the foreign write with the number of
\* diameters; the foreign side keeps the radii of the arr_size edges and the
\* number concentrations of the arr_size - 1 bins
set_sampled(diams, num_concs) ==
    LET len == Len(diams)
        len_num_conc == Len(num_concs)
    IN
    /\ stage = "Ready"
    /\ IF len # len_num_conc + 1
       THEN /\ op' = [name |-> "set_sampled", data |-> <<diams, num_concs>>,
                      err |-> SampleError, calls |-> <<>>]
            /\ UNCHANGED sample_vars
       ELSE /\ op' = [name |-> "set_sampled", data |-> <<diams, num_concs>>, err |-> NoError,
                      calls |-> <<Call("f_aero_mode_set_sampled", len)>>]
            /\ n_bins' = len - 1
            /\ sample_radius' = [i \in 1..len |-> diams[i] \div 2]
            /\ sample_num_conc' = f_store(num_concs, len - 1)
    /\ Void
    /\ UNCHANGED <<array_vars, scalar_vars, text_vars>>
    /\ UNCHANGED ctor_vars

\* f_aero_mode_get_sample_bins: reports the bin count
f_aero_mode_get_sample_bins == Call("f_aero_mode_get_sample_bins", n_bins)

\* get_sample_radius without the len++
get_sample_radius_unshifted ==
    LET len == f_aero_mode_get_sample_bins.n IN
    /\ stage = "Ready"
    /\ op' = [name |-> "get_sample_radius", data |-> <<>>, err |-> NoError,
              calls |-> <<f_aero_mode_get_sample_bins, Call("f_aero_mode_get_sample_radius", len)>>]
    /\ ret' = f_fill(sample_radius, len)
    /\ ptr_reads' = {}
    /\ UNCHANGED <<array_vars, scalar_vars, text_vars, sample_vars>>
    /\ UNCHANGED ctor_vars

\* get_sample_radius: the bin count, len++, a buffer of that size, the foreign fill
get_sample_radius ==
    LET len == f_aero_mode_get_sample_bins.n + 1 IN
    /\ stage = "Ready"
    /\ op' = [name |-> "get_sample_radius", data |-> <<>>, err |-> NoError,
              calls |-> <<f_aero_mode_get_sample_bins, Call("f_aero_mode_get_sample_radius", len)>>]
    /\ ret' = f_fill(sample_radius, len)
    /\ ptr_reads' = {}
    /\ UNCHANGED <<array_vars, scalar_vars, text_vars, sample_vars>>
    /\ UNCHANGED ctor_vars

\* get_sample_num_conc with a fill count one above the buffer size
get_sample_num_conc_overrun ==
    LET len == f_aero_mode_get_sample_bins.n IN
    /\ stage = "Ready"
    /\ op' = [name |-> "get_sample_num_conc", data |-> <<>>, err |-> NoError,
              calls |-> <<f_aero_mode_get_sample_bins, Call("f_aero_mode_get_sample_num_conc", len + 1)>>]
    /\ ret' = f_fill(sample_num_conc, len)
    /\ ptr_reads' = {}
    /\ UNCHANGED <<array_vars, scalar_vars, text_vars, sample_vars>>
    /\ UNCHANGED ctor_vars

\* get_sample_num_conc: the bin count, a buffer of that size, the foreign fill
get_sample_num_conc ==
    LET len == f_aero_mode_get_sample_bins.n IN
    /\ stage = "Ready"
    /\ op' = [name |-> "get_sample_num_conc", data |-> <<>>, err |-> NoError,
              calls |-> <<f_aero_mode_get_sample_bins, Call("f_aero_mode_get_sample_num_conc", len)>>]
    /\ ret' = f_fill(sample_num_conc, len)
    /\ ptr_reads' = {}
    /\ UNCHANGED <<array_vars, scalar_vars, text_vars, sample_vars>>
    /\ UNCHANGED ctor_vars

\* num_dist: the size of the bin grid, a buffer of that size, the foreign fill
\* with the number concentration of every bin
num_dist(grid_size) ==
    LET len == grid_size IN
    /\ stage = "Ready"
    /\ op' = [name |-> "num_dist", data |-> <<>>, err |-> NoError,
              calls |-> <<Call("f_bin_grid_size", grid_size), Call("f_aero_mode_num_conc", len)>>]
    /\ \E filled \in [1..len -> Vals] : ret' = filled
    /\ ptr_reads' = {}
    /\ UNCHANGED <<array_vars, scalar_vars, text_vars, sample_vars>>
    /\ UNCHANGED ctor_vars

NextArrays ==
    \/ \E diams \in DiamArrays, num_concs \in NumConcArrays : set_sampled(diams, num_concs)
    \/ get_sample_radius
    \/ get_sample_num_conc
    \/ \E grid_size \in 0..MaxBins : num_dist(grid_size)
    \/ get_vol_frac
    \/ get_vol_frac_std

SpecArrays == InitArrays /\ [][NextArrays]_vars

(***************************************************************************)
(* All setters and getters of one constructed AeroMode together.           *)
(***************************************************************************)
\* the arrays a caller hands to set_vol_frac and set_vol_frac_std here
FrameArrays == UNION {[1..n -> {1}] : n \in 0..(MaxSpec + 1)}

\* the names a caller hands to set_name here
FrameNames == {<<>>, <<"a">>, <<"b", "a">>}

InitFrame ==
    /\ doc = Null
    /\ stage = "Ready"
    /\ trace = PMCResource_ctor(<<>>)
    /\ err = NoError
    /\ consumed = {}
    /\ n_spec \in 0..MaxSpec
    /\ vol_frac = [i \in 1..n_spec |-> 0]
    /\ vol_frac_std = [i \in 1..n_spec |-> 0]
    /\ op = NoOp
    /\ NoReturn
    /\ ScalarDefaults
    /\ TextDefaults
    /\ SampleDefaults

NextFrame ==
    \/ \E val \in Vals : set_num_conc(val)
    \/ get_num_conc
    \/ \E val \in Vals : set_char_radius(val)
    \/ get_char_radius
    \/ \E val \in Vals : set_gsd(val)
    \/ get_gsd
    \/ \E data \in FrameArrays : set_vol_frac(data)
    \/ get_vol_frac
    \/ \E data \in FrameArrays : set_vol_frac_std(data)
    \/ get_vol_frac_std
    \/ \E mode_type \in TypeNames : set_type(mode_type)
    \/ get_type
    \/ \E str \in FrameNames : set_name(str)
    \/ get_name

SpecFrame == InitFrame /\ [][NextFrame]_vars

(***************************************************************************)
(* Vocabulary of the properties: the trace, and the schema as the          *)
(* specification words it.                                                 *)
(***************************************************************************)
Count(t, e) == Cardinality({i \in 1..Len(t) : t[i] = e})

Occurs(t, e) == \E i \in 1..Len(t) : t[i] = e

Before(t, a, b) == \E i, j \in 1..Len(t) : i < j /\ t[i] = a /\ t[j] = b

\* the foreign calls made up to the moment of the throw
CallsAtThrow(t) ==
    LET n == CHOOSE i \in 1..Len(t) : t[i] = "throw"
    IN SelectSeq(SubSeq(t, 1, n), LAMBDA e : e \in ForeignCalls)

\* a single-entry mapping whose one value is a mapping
GoodShape(d) == d.kind = "obj" /\ Len(d.val) = 1 /\ d.val[1][2].kind = "obj"

ModeOf(d) == d.val[1][2]

MissingKeys(m) == {"mass_frac", "mode_type"} \ Keys(m)

IsList(j) == j.kind = "arr"

DuplicateKeys(l) ==
    \E i, j \in 1..Len(l.val) : i < j /\ Keys(l.val[i]) = Keys(l.val[j])

Sampled(m) == Get(m, "mode_type").kind = "str" /\ Get(m, "mode_type").val[1] = "sampled"

\* exactly two entries, each a single-key mapping, keyed diam and num_conc in that order
SdWellFormed(m) ==
    /\ "size_dist" \in Keys(m)
    /\ LET sd == Get(m, "size_dist") IN
       /\ sd.kind = "arr"
       /\ Len(sd.val) = 2
       /\ \A i \in 1..2 : sd.val[i].kind = "obj" /\ Len(sd.val[i].val) = 1
       /\ Keys(sd.val[1]) = {"diam"}
       /\ Keys(sd.val[2]) = {"num_conc"}

DiamOf(m) == Get(m, "size_dist").val[1].val[1][2]

NumConcOf(m) == Get(m, "size_dist").val[2].val[1][2]

\* both are lists, and their element counts break the edges/bins relation
WronglySized(m) ==
    /\ IsList(DiamOf(m)) /\ IsList(NumConcOf(m))
    /\ Len(DiamOf(m).val) # Len(NumConcOf(m).val) + 1

\* mode parameters with both required keys and a list of distinct keys as mass_frac
BaseOk(d) ==
    /\ GoodShape(d)
    /\ MissingKeys(ModeOf(d)) = {}
    /\ IsList(Get(ModeOf(d), "mass_frac"))
    /\ ~DuplicateKeys(Get(ModeOf(d), "mass_frac"))

SchemaViolation(d) ==
    \/ ~GoodShape(d)
    \/ MissingKeys(ModeOf(d)) # {}
    \/ ~IsList(Get(ModeOf(d), "mass_frac"))
    \/ DuplicateKeys(Get(ModeOf(d), "mass_frac"))
    \/ /\ Sampled(ModeOf(d))
       /\ \/ ~SdWellFormed(ModeOf(d))
          \/ WronglySized(ModeOf(d))

PastSchema == {"SchemaChecked", "ForeignConstructed", "KeysConsumedVerified", "Ready", "Destroyed"}

\* the schema check has run to its end, by a throw or by returning
SchemaDone == stage = "Rejected" \/ stage \in PastSchema

(***************************************************************************)
(* C1.  Stated as claimed: when a document that violates the schema is     *)
(* rejected, no foreign call at all has been made at the moment of the     *)
(* throw.                                                                  *)
(***************************************************************************)
C1_NoForeignCallAtAll ==
    (SchemaViolation(doc) /\ stage = "Rejected") => CallsAtThrow(trace) = <<>>

(***************************************************************************)
(* C1, amended.  A document that violates the schema never gets past the   *)
(* schema check; it is rejected with an error, and at the moment of the    *)
(* throw the foreign calls made are exactly the one f_aero_mode_ctor of    *)
(* the member initializer: f_aero_mode_from_json is never called.          *)
(***************************************************************************)
C1_OnlyCtorBeforeSchemaError ==
    SchemaViolation(doc) =>
        /\ stage \notin PastSchema
        /\ ~Occurs(trace, "f_aero_mode_from_json")
        /\ Occurs(trace, "check_mode_json") => stage = "Rejected"
        /\ stage = "Rejected" =>
              /\ err # NoError
              /\ CallsAtThrow(trace) = <<"f_aero_mode_ctor">>

C1_Witness ==
    /\ stage = "Rejected"
    /\ SchemaViolation(doc)
    /\ GoodShape(doc)
    /\ err = RuntimeError(<<"mass_frac keys must be unique">>)

(***************************************************************************)
(* C2.  On every path of a construction the handle acquired by             *)
(* f_aero_mode_ctor is released by f_aero_mode_dtor at most once, never    *)
(* before it was acquired, not while the construction or the AeroMode      *)
(* lives, and exactly once when the construction was rejected (at any      *)
(* stage) or the AeroMode reached the end of its lifetime.                 *)
(***************************************************************************)
C2_DtorExactlyOnce ==
    /\ Count(trace, "f_aero_mode_ctor") <= 1
    /\ Count(trace, "f_aero_mode_dtor") <= Count(trace, "f_aero_mode_ctor")
    /\ Occurs(trace, "f_aero_mode_dtor") => Before(trace, "f_aero_mode_ctor", "f_aero_mode_dtor")
    /\ stage \in {"Rejected", "Destroyed"} =>
          /\ Count(trace, "f_aero_mode_ctor") = 1
          /\ Count(trace, "f_aero_mode_dtor") = 1
          /\ trace[Len(trace)] = "f_aero_mode_dtor"
    /\ stage \notin {"Rejected", "Destroyed"} => Count(trace, "f_aero_mode_dtor") = 0

C2_Witness ==
    /\ stage = "Rejected"
    /\ err = UnconsumedError
    /\ Count(trace, "f_aero_mode_dtor") = 1

(***************************************************************************)
(* C3.  A construction moves through its stages in the order Unvalidated,  *)
(* SchemaChecked, ForeignConstructed, KeysConsumedVerified, Ready: the     *)
(* schema check (outer shape, then check_mode_json) ends before            *)
(* f_aero_mode_from_json is called, check_parameters runs only after it,   *)
(* Ready is reached only after all three succeeded, a failure ends in      *)
(* Rejected with an error after which no stage runs, and every stage runs  *)
(* at most once.                                                           *)
(***************************************************************************)
StageEvents == {"shape_check", "check_mode_json", "f_aero_mode_from_json", "check_parameters"}

StageOrder ==
    {<<"Start", "Unvalidated">>,
     <<"Unvalidated", "ShapeChecked">>, <<"Unvalidated", "Rejected">>,
     <<"ShapeChecked", "SchemaChecked">>, <<"ShapeChecked", "Rejected">>,
     <<"SchemaChecked", "ForeignConstructed">>,
     <<"ForeignConstructed", "KeysConsumedVerified">>, <<"ForeignConstructed", "Rejected">>,
     <<"KeysConsumedVerified", "Ready">>,
     <<"Ready", "Destroyed">>}

C3_StageInv ==
    /\ \A e \in StageEvents : Count(trace, e) <= 1
    /\ Count(trace, "throw") <= 1
    /\ Occurs(trace, "check_mode_json") => Before(trace, "shape_check", "check_mode_json")
    /\ Occurs(trace, "f_aero_mode_from_json") =>
          /\ Before(trace, "check_mode_json", "f_aero_mode_from_json")
          /\ ~Before(trace, "throw", "f_aero_mode_from_json")
    /\ Occurs(trace, "check_parameters") => Before(trace, "f_aero_mode_from_json", "check_parameters")
    /\ \A e \in StageEvents : ~Before(trace, "throw", e)
    /\ (stage = "Rejected") = Occurs(trace, "throw")
    /\ (stage = "Rejected") = (err # NoError)
    /\ stage = "SchemaChecked" =>
          Occurs(trace, "check_mode_json") /\ ~Occurs(trace, "f_aero_mode_from_json")
    /\ stage = "ForeignConstructed" =>
          Occurs(trace, "f_aero_mode_from_json") /\ ~Occurs(trace, "check_parameters")
    /\ stage \in {"KeysConsumedVerified", "Ready"} =>
          \A e \in StageEvents : Occurs(trace, e)

StageStep == <<stage, stage'>> \in StageOrder

\* C3: the stage invariant holds in every state and every step follows the stage order
C3_StageOrder ==
    []C3_StageInv /\ [][StageStep]_vars

C3_Witness ==
    /\ stage = "Ready"
    /\ Before(trace, "check_mode_json", "f_aero_mode_from_json")
    /\ Before(trace, "f_aero_mode_from_json", "check_parameters")

(***************************************************************************)
(* C4.  Stated as claimed: for every required key that the mode            *)
(* parameters lack, the error of the construction names that key.          *)
(***************************************************************************)
C4_NamesEveryMissingKey ==
    (GoodShape(doc) /\ SchemaDone) =>
        \A k \in MissingKeys(ModeOf(doc)) : stage = "Rejected" /\ Names(err, k)

(***************************************************************************)
(* C4, amended.  When the mode parameters lack a required key the          *)
(* construction raises an error that names one missing key and no other:   *)
(* mass_frac when mass_frac is missing (also when mode_type is missing     *)
(* too), mode_type when only mode_type is missing.                         *)
(***************************************************************************)
FirstMissing(m) == IF "mass_frac" \notin Keys(m) THEN "mass_frac" ELSE "mode_type"

\* C4, amended: the error names the first missing required key and no other
C4_NamesFirstMissingKey ==
    (GoodShape(doc) /\ SchemaDone /\ MissingKeys(ModeOf(doc)) # {}) =>
        /\ stage = "Rejected"
        /\ err.kind = "runtime_error"
        /\ \A k \in {"mass_frac", "mode_type"} :
              Names(err, k) = (k = FirstMissing(ModeOf(doc)))

C4_Witness ==
    /\ stage = "Rejected"
    /\ GoodShape(doc)
    /\ MissingKeys(ModeOf(doc)) = {"mode_type"}
    /\ Names(err, "mode_type")

(***************************************************************************)
(* C5.  Mode parameters whose mass_frac is not a list, or is a list with   *)
(* two single-key entries of the same key, are rejected by check_mode_json *)
(* and f_aero_mode_from_json is never called; a mass_frac list with        *)
(* pairwise distinct keys is not rejected by the mass_frac tests.          *)
(***************************************************************************)
MassFracErrors ==
    {RuntimeError(<<"mass_frac value must be a list of single-element dicts">>),
     RuntimeError(<<"mass_frac keys must be unique">>)}

\* C5: a non-list or duplicate-key mass_frac is rejected before f_aero_mode_from_json
C5_MassFrac ==
    (GoodShape(doc) /\ MissingKeys(ModeOf(doc)) = {}) =>
        LET mf == Get(ModeOf(doc), "mass_frac") IN
        /\ (~IsList(mf) \/ DuplicateKeys(mf)) =>
              /\ ~Occurs(trace, "f_aero_mode_from_json")
              /\ stage \notin PastSchema
              /\ SchemaDone => (stage = "Rejected" /\ err \in MassFracErrors)
        /\ (IsList(mf) /\ ~DuplicateKeys(mf)) => err \notin MassFracErrors

C5_Witness ==
    /\ stage = "Rejected"
    /\ GoodShape(doc) /\ MissingKeys(ModeOf(doc)) = {}
    /\ IsList(Get(ModeOf(doc), "mass_frac"))
    /\ DuplicateKeys(Get(ModeOf(doc), "mass_frac"))
    /\ err = RuntimeError(<<"mass_frac keys must be unique">>)

(***************************************************************************)
(* C6.  For mode_type sampled with an otherwise valid document whose diam  *)
(* and num_conc are lists, the schema check is passed exactly when         *)
(* len(diam) = len(num_conc) + 1, and the document is rejected with an     *)
(* error otherwise.                                                        *)
(***************************************************************************)
SampledLists(d) ==
    /\ BaseOk(d)
    /\ Sampled(ModeOf(d))
    /\ SdWellFormed(ModeOf(d))
    /\ IsList(DiamOf(ModeOf(d))) /\ IsList(NumConcOf(ModeOf(d)))

\* C6: accepted exactly when len(diam) = len(num_conc) + 1
C6_EdgesBins ==
    (SampledLists(doc) /\ SchemaDone) =>
        LET nd == Len(DiamOf(ModeOf(doc)).val)
            nn == Len(NumConcOf(ModeOf(doc)).val)
        IN /\ (nd = nn + 1) => (stage \in PastSchema \/ err = UnconsumedError)
           /\ (nd # nn + 1) => (stage = "Rejected" /\ err.kind = "runtime_error" /\ err # UnconsumedError)

C6_Witness ==
    /\ stage = "SchemaChecked"
    /\ SampledLists(doc)
    /\ DiamOf(ModeOf(doc)) = NumList(3)
    /\ NumConcOf(ModeOf(doc)) = NumList(2)

(***************************************************************************)
(* C7.  For mode_type sampled, check_mode_json lets the mode parameters    *)
(* pass only if size_dist is present and holds exactly two entries, each a *)
(* single-key mapping, the first keyed diam and the second keyed num_conc; *)
(* every other size_dist is rejected with an error.                        *)
(***************************************************************************)
C7_SizeDistShape ==
    (BaseOk(doc) /\ Sampled(ModeOf(doc)) /\ SchemaDone /\ ~SdWellFormed(ModeOf(doc))) =>
        /\ stage = "Rejected"
        /\ err # NoError /\ err # UnconsumedError
        /\ ~Occurs(trace, "f_aero_mode_from_json")

C7_Witness ==
    /\ stage = "Rejected"
    /\ BaseOk(doc) /\ Sampled(ModeOf(doc))
    /\ "size_dist" \in Keys(ModeOf(doc))
    /\ Get(ModeOf(doc), "size_dist") = Arr(<<Obj1("num_conc", NumList(1)), Obj1("diam", NumList(2))>>)

(***************************************************************************)
(* C8.  A document that is not a single-entry mapping whose one value is a *)
(* mapping is rejected with an error by the outer-shape test, and neither  *)
(* check_mode_json nor f_aero_mode_from_json runs.                         *)
(***************************************************************************)
C8_OuterShape ==
    ~GoodShape(doc) =>
        /\ ~Occurs(trace, "check_mode_json")
        /\ ~Occurs(trace, "f_aero_mode_from_json")
        /\ stage \in {"Start", "Unvalidated", "Rejected"}
        /\ Occurs(trace, "shape_check") => (stage = "Rejected" /\ err = ShapeError)

C8_Witness ==
    /\ stage = "Rejected"
    /\ err = ShapeError
    /\ doc = Obj1("my_mode", Arr(<<AMode>>))

(***************************************************************************)
(* C9.  check_parameters runs on every construction that reached           *)
(* f_aero_mode_from_json, and only after it; when a key of the document    *)
(* was not read (such as typo_field) the construction is rejected with an  *)
(* error and no Ready AeroMode is produced.                                *)
(***************************************************************************)
C9_ConsumedKeys ==
    /\ Occurs(trace, "check_parameters") => Before(trace, "f_aero_mode_from_json", "check_parameters")
    /\ (Occurs(trace, "f_aero_mode_from_json") /\ stage # "ForeignConstructed") =>
          Occurs(trace, "check_parameters")
    /\ (Occurs(trace, "check_parameters") /\ Unread(ModeOf(doc), consumed) # {}) =>
          /\ stage = "Rejected"
          /\ err = UnconsumedError
    /\ (GoodShape(doc) /\ "typo_field" \in Keys(ModeOf(doc))) =>
          stage \notin {"KeysConsumedVerified", "Ready", "Destroyed"}
    /\ stage \in {"KeysConsumedVerified", "Ready", "Destroyed"} =>
          Keys(ModeOf(doc)) \subseteq consumed

C9_Witness ==
    /\ stage = "Rejected"
    /\ err = UnconsumedError
    /\ Keys(ModeOf(doc)) = {"mass_frac", "mode_type", "typo_field"}
    /\ Before(trace, "f_aero_mode_from_json", "check_parameters")

(***************************************************************************)
(* C10.  set_vol_frac and set_vol_frac_std with an array whose length      *)
(* differs from n_spec raise an error, do not call the foreign write       *)
(* function and leave vol_frac and vol_frac_std as they were; with an      *)
(* array of length n_spec the foreign write function of the attribute is   *)
(* called exactly once, with that length.                                  *)
(***************************************************************************)
WriteFns == {"f_aero_mode_set_vol_frac", "f_aero_mode_set_vol_frac_std"}

Writes(o) == SelectSeq(o.calls, LAMBDA c : c.fn \in WriteFns)

WriteFnOf(name) ==
    IF name = "set_vol_frac" THEN "f_aero_mode_set_vol_frac" ELSE "f_aero_mode_set_vol_frac_std"

C10_Step ==
    op'.name \in {"set_vol_frac", "set_vol_frac_std"} =>
        IF Len(op'.data) # n_spec
        THEN /\ op'.err = DimensionError
             /\ Writes(op') = <<>>
             /\ vol_frac' = vol_frac
             /\ vol_frac_std' = vol_frac_std
        ELSE /\ op'.err = NoError
             /\ Writes(op') = <<Call(WriteFnOf(op'.name), n_spec)>>

\* C10: every setter call tests the length before the foreign write
C10_DimensionCheck == [][C10_Step]_vars

C10_Witness ==
    /\ op.name = "set_vol_frac_std"
    /\ n_spec = 2
    /\ Len(op.data) = 3
    /\ op.err = DimensionError
    /\ vol_frac # <<0, 0>>

(***************************************************************************)
(* C11.  set_type of a name of the list (log_normal, exp, mono, sampled)   *)
(* followed by get_type returns that name; the code set_type hands over    *)
(* and the name get_type returns for a code are inverse to each other on   *)
(* the four names.                                                         *)
(***************************************************************************)
KnownTypes == {"log_normal", "exp", "mono", "sampled"}

C11_Step ==
    /\ (op'.name = "set_type" /\ op'.data[1] \in KnownTypes) =>
          /\ op'.err = NoError
          /\ type_name(type_code').ret = op'.data
    /\ (op.name = "set_type" /\ op.err = NoError /\ op'.name = "get_type") =>
          /\ op'.err = NoError
          /\ ret' = op.data
    /\ (op'.name = "get_type" /\ op'.err = NoError) =>
          find_type(types, ret'[1], 0) = [found |-> TRUE, type |-> type_code]

\* C11: every set_type / get_type step keeps the two mappings inverse
C11_TypeRoundTrip == [][C11_Step]_vars

C11_Witness ==
    /\ op.name = "get_type"
    /\ ret = <<"mono">>
    /\ type_code = 3

(***************************************************************************)
(* C12.  set_type of a name outside the list raises an invalid-argument    *)
(* error, does not call f_aero_mode_set_type and leaves the stored type    *)
(* code as it was.                                                         *)
(***************************************************************************)
C12_Step ==
    (op'.name = "set_type" /\ op'.data[1] \notin KnownTypes) =>
        /\ op'.err.kind = "invalid_argument"
        /\ op'.calls = <<>>
        /\ type_code' = type_code

\* C12: every set_type step with an unknown name is rejected without effect
C12_UnknownName == [][C12_Step]_vars

C12_Witness ==
    /\ op.name = "set_type"
    /\ op.data = <<"bogus">>
    /\ op.err.kind = "invalid_argument"
    /\ type_code = 2

(***************************************************************************)
(* C13.  get_type returns a name exactly when the code the foreign side    *)
(* reports lies in 1..4, and then the name at 1-based position code of     *)
(* the list; for every other code it raises a logic error, which is not    *)
(* the invalid-argument error of set_type, and the list is only indexed    *)
(* within its range.                                                       *)
(***************************************************************************)
NameAt(code) ==
    IF code = 1 THEN "log_normal" ELSE IF code = 2 THEN "exp"
    ELSE IF code = 3 THEN "mono" ELSE "sampled"

C13_GetType ==
    op.name = "get_type" =>
        /\ op.calls = <<Call("f_aero_mode_get_type", type_code)>>
        /\ (op.err = NoError) = (type_code \in 1..4)
        /\ type_code \in 1..4 => ret = <<NameAt(type_code)>>
        /\ type_code \notin 1..4 => (op.err.kind = "logic_error" /\ ret = <<>>)
        /\ op.err = NoError => (type_code - 1) \in 0..(Len(types) - 1)

C13_Witness ==
    /\ op.name = "get_type"
    /\ type_code = 5
    /\ op.err.kind = "logic_error"

(***************************************************************************)
(* C15.  set_name hands the bytes of the string over together with exactly *)
(* its length; get_name returns a string of exactly the reported length,   *)
(* made of the first that many bytes behind the reported pointer, so       *)
(* get_name after set_name(s) returns s, the empty string included; with a *)
(* reported length of 0 nothing is read through the pointer.               *)
(***************************************************************************)
C15_Step ==
    /\ op'.name = "set_name" =>
          op'.calls = <<Call("f_aero_mode_set_name", Len(op'.data))>>
    /\ op'.name = "get_name" =>
          LET size == op'.calls[1].n IN
          /\ op'.calls = <<Call("f_aero_mode_get_name", Len(mode_name))>>
          /\ Len(ret') = size
          /\ \A i \in 1..size : ret'[i] = mode_name[i]
          /\ ptr_reads' = 0..(size - 1)
          /\ size = 0 => (ret' = <<>> /\ ptr_reads' = {})
    /\ (op.name = "set_name" /\ op'.name = "get_name") => ret' = op.data

\* C15: every set_name / get_name step exchanges the name as bytes and length
C15_NameExchange == [][C15_Step]_vars

C15_Witness ==
    /\ op.name = "get_name"
    /\ ret = <<"a", "b">>
    /\ ptr_reads = {0, 1}

(***************************************************************************)
(* C14.  For num_conc, char_radius, gsd, vol_frac and vol_frac_std, a      *)
(* successful set(x) followed immediately by get() returns x (the same     *)
(* length and elements for the arrays), after any sequence of successful   *)
(* or failed setter calls, the foreign side storing what it is handed.     *)
(***************************************************************************)
Attributes == {"num_conc", "char_radius", "gsd", "vol_frac", "vol_frac_std"}

SetterOf(a) ==
    IF a = "num_conc" THEN "set_num_conc" ELSE IF a = "char_radius" THEN "set_char_radius"
    ELSE IF a = "gsd" THEN "set_gsd" ELSE IF a = "vol_frac" THEN "set_vol_frac"
    ELSE "set_vol_frac_std"

GetterOf(a) ==
    IF a = "num_conc" THEN "get_num_conc" ELSE IF a = "char_radius" THEN "get_char_radius"
    ELSE IF a = "gsd" THEN "get_gsd" ELSE IF a = "vol_frac" THEN "get_vol_frac"
    ELSE "get_vol_frac_std"

C14_Step ==
    \A a \in Attributes :
        (op.name = SetterOf(a) /\ op.err = NoError /\ op'.name = GetterOf(a)) =>
            /\ op'.err = NoError
            /\ ret' = op.data

\* C14: every getter step right after a successful setter step of the same attribute returns what was set
C14_RoundTrip == [][C14_Step]_vars

C14_Witness ==
    /\ op.name = "get_vol_frac_std"
    /\ ret = <<1, 2>>
    /\ vol_frac = <<2, 1>>
    /\ gsd = 2

(***************************************************************************)
(* C17.  Stated as claimed: when set_vol_frac or set_vol_frac_std raises   *)
(* the dimension-mismatch error, no foreign function of any kind was       *)
(* called between the entry to the setter and the throw.                   *)
(***************************************************************************)
C17_NoForeignCallAtAll ==
    (op.name \in {"set_vol_frac", "set_vol_frac_std"} /\ op.err = DimensionError) =>
        op.calls = <<>>

(***************************************************************************)
(* C17, amended.  When set_vol_frac or set_vol_frac_std is handed an array *)
(* whose length is not n_spec, the dimension-mismatch error is raised      *)
(* before any foreign write: the one foreign call between the entry to the *)
(* setter and the throw is the size query f_aero_mode_get_n_spec.          *)
(***************************************************************************)
C17_OnlySizeQueryBeforeError ==
    op.name \in {"set_vol_frac", "set_vol_frac_std"} =>
        /\ (op.err = DimensionError) = (Len(op.data) # n_spec)
        /\ op.err = DimensionError =>
              op.calls = <<Call("f_aero_mode_get_n_spec", n_spec)>>
        /\ op.calls[1] = Call("f_aero_mode_get_n_spec", n_spec)

C17_Witness ==
    /\ op.name = "set_vol_frac"
    /\ n_spec = 2
    /\ Len(op.data) = 1
    /\ op.err = DimensionError
    /\ op.calls = <<Call("f_aero_mode_get_n_spec", 2)>>

(***************************************************************************)
(* C16.  Stated as claimed: in every array getter (get_vol_frac,           *)
(* get_vol_frac_std, num_dist, get_sample_num_conc, get_sample_radius) the *)
(* size query comes before the fill call and the size it returns equals    *)
(* both the capacity of the buffer and the count passed to the fill call.  *)
(***************************************************************************)
ArrayGetters ==
    {"get_vol_frac", "get_vol_frac_std", "num_dist", "get_sample_num_conc", "get_sample_radius"}

SizeQueries == {"f_aero_mode_get_n_spec", "f_bin_grid_size", "f_aero_mode_get_sample_bins"}

C16_QueryEqualsCapacity ==
    op.name \in ArrayGetters =>
        /\ Len(op.calls) = 2
        /\ op.calls[1].fn \in SizeQueries
        /\ op.calls[1].n = Len(ret)
        /\ op.calls[1].n = op.calls[2].n

(***************************************************************************)
(* C16, amended.  In every array getter the size query comes before the    *)
(* fill call and the capacity of the buffer equals the count passed to the *)
(* fill call; that count is the size the query returned in get_vol_frac,   *)
(* get_vol_frac_std, num_dist and get_sample_num_conc, and the returned    *)
(* bin count plus one in get_sample_radius.                                *)
(***************************************************************************)
C16_CapacityEqualsCount ==
    op.name \in ArrayGetters =>
        /\ Len(op.calls) = 2
        /\ op.calls[1].fn \in SizeQueries
        /\ op.calls[2].fn \notin SizeQueries
        /\ op.calls[2].n = Len(ret)
        /\ op.name # "get_sample_radius" => op.calls[2].n = op.calls[1].n
        /\ op.name = "get_sample_radius" => op.calls[2].n = op.calls[1].n + 1

C16_Witness ==
    /\ op.name = "get_sample_radius"
    /\ op.calls = <<Call("f_aero_mode_get_sample_bins", 2), Call("f_aero_mode_get_sample_radius", 3)>>
    /\ ret = <<1, 2, 1>>

(***************************************************************************)
(* C18.  set_sampled raises an error and makes no foreign call whenever    *)
(* len(diams) is not len(num_conc) + 1, both arrays empty included;        *)
(* otherwise it makes exactly one f_aero_mode_set_sampled call and the     *)
(* count it passes is len(diams), the number of edges.                     *)
(***************************************************************************)
C18_SetSampled ==
    op.name = "set_sampled" =>
        LET diams == op.data[1]
            concs == op.data[2]
        IN IF Len(diams) # Len(concs) + 1
           THEN op.err # NoError /\ op.calls = <<>>
           ELSE op.err = NoError /\ op.calls = <<Call("f_aero_mode_set_sampled", Len(diams))>>

C18_Witness ==
    /\ op.name = "set_sampled"
    /\ op.data = <<<<2, 4, 4>>, <<1, 1>>>>
    /\ op.calls = <<Call("f_aero_mode_set_sampled", 3)>>

(***************************************************************************)
(* C19.  For every bin count n the foreign side reports, get_sample_radius *)
(* returns an array of n + 1 elements and get_sample_num_conc one of n     *)
(* elements, so the arrays read one after the other satisfy                *)
(* len(radius) = len(num_conc) + 1.                                        *)
(***************************************************************************)
C19_Inv ==
    /\ op.name = "get_sample_radius" => Len(ret) = n_bins + 1
    /\ op.name = "get_sample_num_conc" => Len(ret) = n_bins

C19_Step ==
    /\ (op.name = "get_sample_radius" /\ op'.name = "get_sample_num_conc") => Len(ret) = Len(ret') + 1
    /\ (op.name = "get_sample_num_conc" /\ op'.name = "get_sample_radius") => Len(ret') = Len(ret) + 1

\* C19: the lengths read back follow the bin count in every state and across getter steps
C19_EdgesBinsReadBack == []C19_Inv /\ [][C19_Step]_vars

C19_Witness ==
    /\ op.name = "get_sample_radius"
    /\ n_bins = 2
    /\ Len(ret) = 3
    /\ Len(sample_num_conc) = 2

(***************************************************************************)
(* C20.  check_mode_json looks at size_dist only when mode_type equals     *)
(* "sampled": mode parameters with both required keys, a list-valued       *)
(* mass_frac of distinct keys and any other mode_type value (an unknown    *)
(* name or a non-string included) pass the schema check, with size_dist    *)
(* absent, malformed or wrongly sized; a later rejection comes from the    *)
(* check of the consumed keys only.                                        *)
(***************************************************************************)
C20_NonSampledPasses ==
    (BaseOk(doc) /\ ~Sampled(ModeOf(doc)) /\ SchemaDone) =>
        /\ Occurs(trace, "check_mode_json")
        /\ stage = "Rejected" =>
               /\ err = UnconsumedError
               /\ Before(trace, "check_mode_json", "f_aero_mode_from_json")

C20_Witness ==
    /\ stage = "SchemaChecked"
    /\ BaseOk(doc)
    /\ Get(ModeOf(doc), "mode_type") = Num(3)
    /\ "size_dist" \in Keys(ModeOf(doc))
    /\ Get(ModeOf(doc), "size_dist") = Arr(<<Obj1("diam", NumList(2))>>)

(***************************************************************************)
(* C21.  A setter that succeeds makes exactly one mutating foreign call,   *)
(* the foreign setter of its own attribute; a getter makes none.  So in    *)
(* every step the attribute that a successful setter names reads back the  *)
(* value handed in and every other attribute reads back what it did        *)
(* before, a getter or a failed setter changes no attribute, and a getter  *)
(* returns what its attribute holds: each attribute reads back the most    *)
(* recent successful set of that same attribute.                           *)
(***************************************************************************)
AllAttributes == {"num_conc", "char_radius", "gsd", "vol_frac", "vol_frac_std", "type", "name"}

SetterName(a) == IF a = "type" THEN "set_type" ELSE IF a = "name" THEN "set_name" ELSE SetterOf(a)

GetterName(a) == IF a = "type" THEN "get_type" ELSE IF a = "name" THEN "get_name" ELSE GetterOf(a)

ForeignSetter(a) ==
    IF a = "num_conc" THEN "f_aero_mode_set_num_conc"
    ELSE IF a = "char_radius" THEN "f_aero_mode_set_char_radius"
    ELSE IF a = "gsd" THEN "f_aero_mode_set_gsd"
    ELSE IF a = "vol_frac" THEN "f_aero_mode_set_vol_frac"
    ELSE IF a = "vol_frac_std" THEN "f_aero_mode_set_vol_frac_std"
    ELSE IF a = "type" THEN "f_aero_mode_set_type"
    ELSE "f_aero_mode_set_name"

MutatingFns == {ForeignSetter(a) : a \in AllAttributes} \cup {"f_aero_mode_set_sampled", "f_aero_mode_from_json"}

Mutating(o) == SelectSeq(o.calls, LAMBDA c : c.fn \in MutatingFns)

\* what the foreign side holds for every attribute, in the form the getter returns it
Held ==
    [a \in AllAttributes |->
        IF a = "num_conc" THEN <<mode_num_conc>>
        ELSE IF a = "char_radius" THEN <<char_radius>>
        ELSE IF a = "gsd" THEN <<gsd>>
        ELSE IF a = "vol_frac" THEN f_fill(vol_frac, n_spec)
        ELSE IF a = "vol_frac_std" THEN f_fill(vol_frac_std, n_spec)
        ELSE IF a = "type" THEN type_name(type_code).ret
        ELSE mode_name]

C21_Step ==
    \A a \in AllAttributes :
        /\ (op'.name = SetterName(a) /\ op'.err = NoError) =>
              /\ Len(Mutating(op')) = 1
              /\ Mutating(op')[1].fn = ForeignSetter(a)
              /\ Held'[a] = op'.data
              /\ \A b \in AllAttributes \ {a} : Held'[b] = Held[b]
              /\ n_spec' = n_spec
        /\ (op'.name = SetterName(a) /\ op'.err # NoError) =>
              /\ Mutating(op') = <<>>
              /\ Held' = Held
        /\ op'.name = GetterName(a) =>
              /\ Mutating(op') = <<>>
              /\ Held' = Held
              /\ n_spec' = n_spec
              /\ op'.err = NoError => ret' = Held[a]

\* C21: every setter and getter step keeps the frame and the read-back of all seven attributes
C21_Frame == [][C21_Step]_vars

\* gsd is read back after other attributes were set and read in between
C21_Witness ==
    /\ op.name = "get_gsd"
    /\ ret = <<2>>
    /\ mode_num_conc = 1
    /\ char_radius = 1
    /\ vol_frac = <<1, 1>>
    /\ vol_frac_std = <<1, 1>>
    /\ type_code = 3
    /\ mode_name = <<"b", "a">>

====
